---- MODULE Spec2Model ----
(***************************************************************************)
(* A model of the messaging runtime of teltech/platform:                   *)
(*   - amqp.Subscriber      (src/amqp/subscriber.go): the reconnect loop   *)
(*     and the dispatch loop over the registered subscriptions;            *)
(*   - StandardRouter       (src/router.go): request/reply correlation;    *)
(*   - Service / RequestHeartbeatCourier (service file of package          *)
(*     platform): handler wrapper, heartbeat goroutine, shutdown;          *)
(*   - Courier              (same file): the response queue and the        *)
(*     goroutine that publishes each response to its destination.          *)
(* Each component has its own specification; the variables of the other    *)
(* components stay unchanged under it.                                     *)
(***************************************************************************)
EXTENDS Integers, Sequences, FiniteSets, TLC

\* ------------------------------------------------------------------ bounds
\* Messages the broker hands to the consume stream in one behaviour.
MaxMsgs == 2
\* Subscriptions registered before Run.
MaxSubs == 2
\* Capacities newSubscription may give the deliveries channel: small and
\* fixed, the same for every subscription.
InboxCaps == {1, 2}
\* Route calls in one behaviour.
MaxCalls == 2
\* Reply bodies published to the router's reply topic in one behaviour.
MaxReplies == 2
\* Requests delivered to the handler wrapper in one behaviour.
MaxInv == 1
\* Send calls one handler invocation makes.
MaxSends == 2
\* Heartbeats one heartbeat goroutine emits.
MaxBeats == 1
\* Calls of Courier.Send.
MaxCourierSends == 3

\* ------------------------------------------------------- subscriber: state
VARIABLES
    subscriptions,          \* s.subscriptions: <<[topic, deliveries, open, cap]>>
    started,                \* s.started: "nil" or "chan"
    startedClosed,          \* whether the channel made by Run has been closed
    closed,                 \* s.closed
    quit,                   \* s.quit: "open" or "closed"
    pc,                     \* position of the goroutine spawned by Run
    err,                    \* value returned by the last call of run()
    bindIdx,                \* index of the range loop over s.subscriptions
    connectionClosed,       \* a value is ready on connectionClosed
    channelInterfaceClosed, \* a value is ready on channelInterfaceClosed
    declared,               \* the queue has been declared on this channel
    bound,                  \* topics bound on the channel of this cycle
    consuming,              \* Consume has succeeded on this channel
    callerPc,               \* position of the caller of Run
    callerChan,             \* the value of s.started the caller receives from
    nextMsg,                \* number of messages read from msgs so far
    last,                   \* what the dispatch loop did with the last message
    everBound,              \* topics bound on some channel so far
    exitCause,              \* why run() returned the last time
    reconnected,            \* a disconnect has ended a dispatch loop
    quitCloses,             \* executions of close(s.quit)
    reclosed                \* Close has been called on a closed subscriber

subVars == <<subscriptions, started, startedClosed, closed, quit, pc, err,
             bindIdx, connectionClosed, channelInterfaceClosed, declared,
             bound, consuming, callerPc, callerChan, nextMsg, last,
             everBound, exitCause, reconnected, quitCloses, reclosed>>

\* ----------------------------------------------------------- router: state
VARIABLES
    pendingRequests,        \* sr.pendingRequests: id -> the call owning the channel
    mu,                     \* sr.mu: "free", or who holds it
    rpc,                    \* position of each Route call
    msgId,                  \* msg.Id of each Route call (0: not yet assigned)
    responseChan,           \* responseChan of each Route call (capacity 1)
    timer,                  \* the time.After channel of each call
    result,                 \* what each Route call returned
    nextId,                 \* number of identifiers CreateUUID has handed out
    requests,               \* calls whose request has been published
    replies,                \* bodies waiting in the router's subscription: body -> count
    replyCount,             \* replies the responders have sent so far
    handlerPc,              \* position of the router's reply handler
    handlerMsg,             \* the reply the handler is working on
    arrival,                \* when the first reply entered the call's channel
    discarded               \* the body the handler dropped last (Nil: none yet)

routerVars == <<pendingRequests, mu, rpc, msgId, responseChan, timer, result,
                nextId, requests, replies, replyCount, handlerPc, handlerMsg,
                arrival, discarded>>

\* ---------------------------------------------------------- service: state
VARIABLES
    preventPanics,          \* Getenv("PLATFORM_PREVENT_PANICS", "1") == "1"
    running,                \* Service.Run has been called
    stillConsuming,         \* package variable stillConsuming
    consumedWorkCount,      \* package variable consumedWorkCount
    sigPc,                  \* position of the signal goroutine of Service.Run
    inFlightAtSignal,       \* invocations that were in flight at the signal
    crashed,                \* a panic left a goroutine unrecovered
    wpc,                    \* position of each invocation of the wrapper
    cur,                    \* Completed of the reply the invocation is sending
    sends,                  \* Send calls the handler has made
    quitCh,                 \* values buffered in rhc.quit
    hpc,                    \* position of the invocation's heartbeat goroutine
    beats,                  \* heartbeats passed to the parent sender
    forwarded,              \* completed replies passed to the parent sender
    errorReplies,           \* error replies of the recovery passed to the parent
    diag,                   \* publishes on "panic." + path
    panicked                \* handler.Handle has panicked

svcVars == <<preventPanics, running, stillConsuming, consumedWorkCount, sigPc,
             inFlightAtSignal, crashed, wpc, cur, sends, quitCh, hpc, beats,
             forwarded, errorReplies, diag, panicked>>

\* ---------------------------------------------------------- courier: state
VARIABLES
    responses,              \* Courier.responses: the replies waiting to be published
    published,              \* what the goroutine of NewCourier has published
    courierSent,            \* calls of Courier.Send so far
    sentRouteTo,            \* Routing.RouteTo of each call of Courier.Send, as passed
    sendPanics,             \* calls of Courier.Send that ended in a panic
    courierCrashed          \* a panic of the courier left a goroutine unrecovered

courierVars == <<responses, published, courierSent, sentRouteTo, sendPanics,
                 courierCrashed>>

otherThanSub == <<routerVars, svcVars, courierVars>>
otherThanRouter == <<subVars, svcVars, courierVars>>
otherThanSvc == <<subVars, routerVars, courierVars>>
otherThanCourier == <<subVars, routerVars, svcVars>>

\* Topic patterns a caller may subscribe to and routing keys the broker
\* delivers, as dot-separated segments.
Topics == { <<"a", "*">>, <<"a", "1">> }
Keys == { <<"a", "1">>, <<"a", "2">>, <<"c", "1">> }

\* AMQP topic matching of a routing key against a pattern: "*" stands for
\* exactly one segment, "#" for any number of segments.
RECURSIVE TopicMatch(_, _)
TopicMatch(pattern, key) ==
    IF pattern = <<>> THEN key = <<>>
    ELSE IF Head(pattern) = "#"
         THEN \/ TopicMatch(Tail(pattern), key)
              \/ (key # <<>> /\ TopicMatch(pattern, Tail(key)))
    ELSE /\ key # <<>>
         /\ (Head(pattern) = "*" \/ Head(pattern) = Head(key))
         /\ TopicMatch(Tail(pattern), Tail(key))

\* subscription.canHandle(msg): the subscription's topic accepts the
\* routing key of the delivery.
canHandle(subscription, msg) == TopicMatch(subscription.topic, msg.key)

\* newSubscription(topic, handler): deliveries is a channel of capacity cap.
newSubscription(topic, cap) ==
    [topic |-> topic, deliveries |-> <<>>, open |-> TRUE, cap |-> cap]

AllTopics == { subscriptions[i].topic : i \in DOMAIN subscriptions }

NoDispatch == [id |-> 0, placed |-> {}, rejected |-> FALSE, first |-> 0]

SubInit ==
    /\ subscriptions = <<>>
    /\ started = "nil"
    /\ startedClosed = FALSE
    /\ closed = FALSE
    /\ quit = "open"
    /\ pc = "idle"
    /\ err = "nil"
    /\ bindIdx = 0
    /\ connectionClosed = FALSE
    /\ channelInterfaceClosed = FALSE
    /\ declared = FALSE
    /\ bound = {}
    /\ consuming = FALSE
    /\ callerPc = "init"
    /\ callerChan = "none"
    /\ nextMsg = 0
    /\ last = NoDispatch
    /\ everBound = {}
    /\ exitCause = "none"
    /\ reconnected = FALSE
    /\ quitCloses = 0
    /\ reclosed = FALSE

\* ----------------------------------------------------- subscriber: actions
\* The locals of one call of run(): they go out of scope when it returns.
cycleVars == <<bindIdx, connectionClosed, channelInterfaceClosed, declared,
               bound, consuming>>
callerVars == <<callerPc, callerChan>>
dispatchVars == <<nextMsg, last>>
closeVars == <<quitCloses, reclosed>>

\* Subscriber.Subscribe, called before Run (its contract).
Subscribe(topic, cap) ==
    /\ callerPc = "init"
    /\ Len(subscriptions) < MaxSubs
    /\ \A i \in DOMAIN subscriptions : subscriptions[i].cap = cap
    /\ subscriptions' = Append(subscriptions, newSubscription(topic, cap))
    /\ UNCHANGED <<started, startedClosed, closed, quit, pc, err, exitCause,
                   cycleVars, callerVars, dispatchVars, everBound, reconnected>>
    /\ UNCHANGED closeVars
    /\ UNCHANGED otherThanSub

\* Subscriber.Run up to the go statement: makes s.started and spawns the loop.
Run ==
    /\ callerPc = "init"
    /\ started' = "chan"
    /\ startedClosed' = FALSE
    /\ pc' = "dial"
    /\ callerPc' = "spawned"
    /\ UNCHANGED <<subscriptions, closed, quit, err, exitCause, cycleVars,
                   callerChan, dispatchVars, everBound, reconnected>>
    /\ UNCHANGED closeVars
    /\ UNCHANGED otherThanSub

\* The caller evaluates the operand of <-s.started; the spawned goroutine
\* may already have set the field to nil.
RunWait ==
    /\ callerPc = "spawned"
    /\ callerChan' = started
    /\ callerPc' = "waiting"
    /\ UNCHANGED <<subscriptions, started, startedClosed, closed, quit, pc, err,
                   exitCause, cycleVars, dispatchVars, everBound, reconnected>>
    /\ UNCHANGED closeVars
    /\ UNCHANGED otherThanSub

\* <-s.started returns once the channel has been closed; a receive from a nil
\* channel never returns.
RunReturn ==
    /\ callerPc = "waiting"
    /\ callerChan = "chan"
    /\ startedClosed
    /\ callerPc' = "returned"
    /\ UNCHANGED <<subscriptions, started, startedClosed, closed, quit, pc, err,
                   exitCause, cycleVars, callerChan, dispatchVars, everBound,
                   reconnected>>
    /\ UNCHANGED closeVars
    /\ UNCHANGED otherThanSub

\* run() returns e from one of its steps; its locals are gone.
runReturns(e, cause) ==
    /\ err' = e
    /\ exitCause' = cause
    /\ pc' = "returned"
    /\ bindIdx' = 0
    /\ connectionClosed' = FALSE
    /\ channelInterfaceClosed' = FALSE
    /\ declared' = FALSE
    /\ bound' = {}
    /\ consuming' = FALSE

\* s.dialerInterface.Dial() and connectionInterface.NotifyClose
runDial(ok) ==
    /\ pc = "dial"
    /\ IF ok
       THEN /\ pc' = "channel"
            /\ UNCHANGED <<err, exitCause, cycleVars>>
       ELSE runReturns("error", "dial")
    /\ UNCHANGED <<subscriptions, started, startedClosed, closed, quit,
                   callerVars, dispatchVars, everBound, reconnected>>
    /\ UNCHANGED closeVars
    /\ UNCHANGED otherThanSub

\* connectionInterface.GetChannelInterface() and channelInterface.NotifyClose
runGetChannelInterface(ok) ==
    /\ pc = "channel"
    /\ IF ok
       THEN /\ pc' = "declare"
            /\ UNCHANGED <<err, exitCause, cycleVars>>
       ELSE runReturns("error", "channel")
    /\ UNCHANGED <<subscriptions, started, startedClosed, closed, quit,
                   callerVars, dispatchVars, everBound, reconnected>>
    /\ UNCHANGED closeVars
    /\ UNCHANGED otherThanSub

\* Faulty variant of runQueueDeclare: the caller of Run is released as soon as the
\* queue is declared, before any topic is bound.
runQueueDeclareReleasesCaller(ok) ==
    /\ pc = "declare"
    /\ IF ok
       THEN /\ pc' = "bind"
            /\ declared' = TRUE
            /\ bindIdx' = 1
            /\ startedClosed' = (startedClosed \/ started # "nil")
            /\ started' = "nil"
            /\ UNCHANGED <<err, exitCause, connectionClosed,
                           channelInterfaceClosed, bound, consuming>>
       ELSE /\ runReturns("error", "declare")
            /\ UNCHANGED <<started, startedClosed>>
    /\ UNCHANGED <<subscriptions, closed, quit, callerVars, dispatchVars,
                   everBound, reconnected>>
    /\ UNCHANGED closeVars
    /\ UNCHANGED otherThanSub

\* channelInterface.QueueDeclare(...)
runQueueDeclare(ok) ==
    /\ pc = "declare"
    /\ IF ok
       THEN /\ pc' = "bind"
            /\ declared' = TRUE
            /\ bindIdx' = 1
            /\ UNCHANGED <<err, exitCause, connectionClosed,
                           channelInterfaceClosed, bound, consuming>>
       ELSE runReturns("error", "declare")
    /\ UNCHANGED <<subscriptions, started, startedClosed, closed, quit,
                   callerVars, dispatchVars, everBound, reconnected>>
    /\ UNCHANGED closeVars
    /\ UNCHANGED otherThanSub

\* Faulty variant of runQueueBind: the range loop ends after its first bind.
runQueueBindFirstOnly(ok) ==
    /\ pc = "bind"
    /\ bindIdx <= Len(subscriptions)
    /\ IF ok
       THEN /\ bound' = bound \cup {subscriptions[bindIdx].topic}
            /\ everBound' = everBound \cup {subscriptions[bindIdx].topic}
            /\ bindIdx' = Len(subscriptions) + 1
            /\ UNCHANGED <<pc, err, exitCause, connectionClosed,
                           channelInterfaceClosed, declared, consuming>>
       ELSE /\ runReturns("error", "bind")
            /\ UNCHANGED everBound
    /\ UNCHANGED <<subscriptions, started, startedClosed, closed, quit,
                   callerVars, dispatchVars, reconnected>>
    /\ UNCHANGED closeVars
    /\ UNCHANGED otherThanSub

\* One iteration of the range loop: channelInterface.QueueBind(...)
runQueueBind(ok) ==
    /\ pc = "bind"
    /\ bindIdx <= Len(subscriptions)
    /\ IF ok
       THEN /\ bound' = bound \cup {subscriptions[bindIdx].topic}
            /\ everBound' = everBound \cup {subscriptions[bindIdx].topic}
            /\ bindIdx' = bindIdx + 1
            /\ UNCHANGED <<pc, err, exitCause, connectionClosed,
                           channelInterfaceClosed, declared, consuming>>
       ELSE /\ runReturns("error", "bind")
            /\ UNCHANGED everBound
    /\ UNCHANGED <<subscriptions, started, startedClosed, closed, quit,
                   callerVars, dispatchVars, reconnected>>
    /\ UNCHANGED closeVars
    /\ UNCHANGED otherThanSub

\* channelInterface.Consume(...), then close(s.started); s.started = nil
runConsume(ok) ==
    /\ pc = "bind"
    /\ bindIdx > Len(subscriptions)
    /\ IF ok
       THEN /\ consuming' = TRUE
            /\ startedClosed' = (startedClosed \/ started # "nil")
            /\ started' = "nil"
            /\ pc' = "dispatch"
            /\ UNCHANGED <<err, exitCause, bindIdx, connectionClosed,
                           channelInterfaceClosed, declared, bound>>
       ELSE /\ runReturns("error", "consume")
            /\ UNCHANGED <<startedClosed, started>>
    /\ UNCHANGED <<subscriptions, closed, quit, callerVars, dispatchVars,
                   everBound, reconnected>>
    /\ UNCHANGED closeVars
    /\ UNCHANGED otherThanSub

\* Faulty variant of dispatchLoop: the message is put at the head of the
\* inbox, ahead of the deliveries that wait there.
RECURSIVE dispatchLoopPrepends(_, _, _, _, _)
dispatchLoopPrepends(subs, i, msg, handled, placed) ==
    IF i > Len(subs)
    THEN [subs |-> subs, handled |-> handled, placed |-> placed]
    ELSE IF canHandle(subs[i], msg) /\ Len(subs[i].deliveries) < subs[i].cap
         THEN dispatchLoopPrepends(
                  [subs EXCEPT ![i].deliveries = <<msg>> \o @],
                  i + 1, msg, TRUE, placed \cup {i})
         ELSE dispatchLoopPrepends(subs, i + 1, msg, handled, placed)

\* The loop over s.subscriptions of the msg case, from index i on: a
\* non-blocking send into the deliveries of every subscription that
\* canHandle the message. Yields the subscriptions, handled and the indexes
\* the message was placed in.
RECURSIVE dispatchLoop(_, _, _, _, _)
dispatchLoop(subs, i, msg, handled, placed) ==
    IF i > Len(subs)
    THEN [subs |-> subs, handled |-> handled, placed |-> placed]
    ELSE IF canHandle(subs[i], msg) /\ Len(subs[i].deliveries) < subs[i].cap
         THEN dispatchLoop([subs EXCEPT ![i].deliveries = Append(@, msg)],
                           i + 1, msg, TRUE, placed \cup {i})
         ELSE dispatchLoop(subs, i + 1, msg, handled, placed)

\* First subscription, in registration order, that accepts msg (0: none).
FirstMatch(subs, msg) ==
    IF \E i \in DOMAIN subs : canHandle(subs[i], msg)
    THEN CHOOSE i \in DOMAIN subs :
            /\ canHandle(subs[i], msg)
            /\ \A j \in 1..(i - 1) : ~canHandle(subs[j], msg)
    ELSE 0

\* case msg := <-msgs of the dispatch loop, with msg.Reject(true) when the
\* message was not handled.
runDispatch(key) ==
    /\ pc = "dispatch"
    /\ nextMsg < MaxMsgs
    /\ LET msg == [id |-> nextMsg + 1, key |-> key]
           r == dispatchLoop(subscriptions, 1, msg, FALSE, {})
       IN /\ subscriptions' = r.subs
          /\ last' = [id |-> msg.id, placed |-> r.placed,
                      rejected |-> ~r.handled,
                      first |-> FirstMatch(subscriptions, msg)]
    /\ nextMsg' = nextMsg + 1
    /\ UNCHANGED <<started, startedClosed, closed, quit, pc, err, exitCause,
                   cycleVars, callerVars, everBound, reconnected>>
    /\ UNCHANGED closeVars
    /\ UNCHANGED otherThanSub

\* case err := <-connectionClosed
runConnectionClosed ==
    /\ pc = "dispatch"
    /\ connectionClosed
    /\ runReturns("nil", "connectionClosed")
    /\ reconnected' = TRUE
    /\ UNCHANGED <<subscriptions, started, startedClosed, closed, quit,
                   callerVars, dispatchVars, everBound>>
    /\ UNCHANGED closeVars
    /\ UNCHANGED otherThanSub

\* case err := <-channelInterfaceClosed
runChannelInterfaceClosed ==
    /\ pc = "dispatch"
    /\ channelInterfaceClosed
    /\ runReturns("nil", "channelInterfaceClosed")
    /\ reconnected' = TRUE
    /\ UNCHANGED <<subscriptions, started, startedClosed, closed, quit,
                   callerVars, dispatchVars, everBound>>
    /\ UNCHANGED closeVars
    /\ UNCHANGED otherThanSub

\* case <-s.quit
runQuit ==
    /\ pc = "dispatch"
    /\ quit = "closed"
    /\ runReturns("subscriberClosed", "quit")
    /\ UNCHANGED <<subscriptions, started, startedClosed, closed, quit,
                   callerVars, dispatchVars, everBound, reconnected>>
    /\ UNCHANGED closeVars
    /\ UNCHANGED otherThanSub

\* Faulty variant of RunLoop: the goroutine returns on every error of run().
RunLoopStopsOnAnyError ==
    /\ pc = "returned"
    /\ pc' = IF err # "nil" THEN "stopped" ELSE "dial"
    /\ err' = "nil"
    /\ exitCause' = "none"
    /\ UNCHANGED <<subscriptions, started, startedClosed, closed, quit,
                   cycleVars, callerVars, dispatchVars, everBound, reconnected>>
    /\ UNCHANGED closeVars
    /\ UNCHANGED otherThanSub

\* The for loop of the goroutine of Run, after run() has returned: return
\* when err == subscriberClosed, otherwise run() again.
RunLoop ==
    /\ pc = "returned"
    /\ pc' = IF err = "subscriberClosed" THEN "stopped" ELSE "dial"
    /\ err' = "nil"
    /\ exitCause' = "none"
    /\ UNCHANGED <<subscriptions, started, startedClosed, closed, quit,
                   cycleVars, callerVars, dispatchVars, everBound, reconnected>>
    /\ UNCHANGED closeVars
    /\ UNCHANGED otherThanSub

\* Faulty variant of Close: s.closed is not consulted.
CloseUnguarded ==
    /\ subscriptions' = [i \in DOMAIN subscriptions |->
                            [subscriptions[i] EXCEPT !.open = FALSE]]
    /\ quit' = "closed"
    /\ quitCloses' = quitCloses + 1
    /\ closed' = TRUE
    /\ reclosed' = (reclosed \/ closed)
    /\ UNCHANGED <<started, startedClosed, pc, err, exitCause, cycleVars,
                   callerVars, dispatchVars, everBound, reconnected>>
    /\ UNCHANGED otherThanSub

\* Subscriber.Close: the first call closes every subscription and s.quit
\* and sets s.closed; a later call finds s.closed set. Returns nil.
Close ==
    /\ IF ~closed
       THEN /\ subscriptions' = [i \in DOMAIN subscriptions |->
                                   [subscriptions[i] EXCEPT !.open = FALSE]]
            /\ quit' = "closed"
            /\ quitCloses' = quitCloses + 1
            /\ closed' = TRUE
            /\ UNCHANGED reclosed
       ELSE /\ reclosed' = TRUE
            /\ UNCHANGED <<subscriptions, quit, quitCloses, closed>>
    /\ UNCHANGED <<started, startedClosed, pc, err, exitCause, cycleVars,
                   callerVars, dispatchVars, everBound, reconnected>>
    /\ UNCHANGED otherThanSub

\* The transport reports the connection closed (NotifyClose of the connection).
ConnectionLost ==
    /\ pc = "dispatch"
    /\ ~connectionClosed
    /\ connectionClosed' = TRUE
    /\ UNCHANGED <<subscriptions, started, startedClosed, closed, quit, pc, err,
                   exitCause, bindIdx, channelInterfaceClosed, declared, bound,
                   consuming, callerVars, dispatchVars, everBound, reconnected>>
    /\ UNCHANGED closeVars
    /\ UNCHANGED otherThanSub

\* The transport reports the channel closed (NotifyClose of the channel).
ChannelLost ==
    /\ pc = "dispatch"
    /\ ~channelInterfaceClosed
    /\ channelInterfaceClosed' = TRUE
    /\ UNCHANGED <<subscriptions, started, startedClosed, closed, quit, pc, err,
                   exitCause, bindIdx, connectionClosed, declared, bound,
                   consuming, callerVars, dispatchVars, everBound, reconnected>>
    /\ UNCHANGED closeVars
    /\ UNCHANGED otherThanSub

\* The goroutine of subscription i receives the next delivery of its inbox.
SubscriptionReceive(i) ==
    /\ i \in DOMAIN subscriptions
    /\ subscriptions[i].deliveries # <<>>
    /\ subscriptions' = [subscriptions EXCEPT ![i].deliveries = Tail(@)]
    /\ UNCHANGED <<started, startedClosed, closed, quit, pc, err, exitCause,
                   cycleVars, callerVars, dispatchVars, everBound, reconnected>>
    /\ UNCHANGED closeVars
    /\ UNCHANGED otherThanSub

\* The steps of the subscriber and of the caller of Subscribe and Run.
SubLoopNext ==
    \/ \E topic \in Topics, cap \in InboxCaps : Subscribe(topic, cap)
    \/ Run
    \/ RunWait
    \/ RunReturn
    \/ \E ok \in BOOLEAN : runDial(ok)
    \/ \E ok \in BOOLEAN : runGetChannelInterface(ok)
    \/ \E ok \in BOOLEAN : runQueueDeclare(ok)
    \/ \E ok \in BOOLEAN : runQueueBind(ok)
    \/ \E ok \in BOOLEAN : runConsume(ok)
    \/ \E key \in Keys : runDispatch(key)
    \/ runConnectionClosed
    \/ runChannelInterfaceClosed
    \/ RunLoop
    \/ ConnectionLost
    \/ ChannelLost

\* Close, and the case of the select that a closed s.quit makes ready.
SubCloseNext ==
    \/ Close
    \/ runQuit

\* The receivers of the inboxes.
SubReceiveNext == \E i \in 1..MaxSubs : SubscriptionReceive(i)

SubNext ==
    \/ SubLoopNext
    \/ SubCloseNext
    \/ SubReceiveNext

\* The subscriber while no receiver takes a delivery out of an inbox.
SubLifecycleNext ==
    \/ SubLoopNext
    \/ SubCloseNext

\* The subscriber while nobody calls Close.
SubDispatchNext ==
    \/ SubLoopNext
    \/ SubReceiveNext

\* ---------------------------------------------------------- router: actions
Calls == 1..MaxCalls
Nil == [valid |-> FALSE, id |-> -1]
\* The bodies that can arrive on the reply topic: a routed message bearing an
\* identifier (0: one that was never issued), or bytes that do not decode.
Bodies == [valid : BOOLEAN, id : 0..MaxCalls] \ [valid : {FALSE}, id : 1..MaxCalls]
\* make(chan *RoutedMessage, 1)
ResponseChanCap == 1

RouterInit ==
    /\ pendingRequests = [i \in {} |-> 0]
    /\ mu = "free"
    /\ rpc = [c \in Calls |-> "idle"]
    /\ msgId = [c \in Calls |-> 0]
    /\ responseChan = [c \in Calls |-> <<>>]
    /\ timer = [c \in Calls |-> "off"]
    /\ result = [c \in Calls |-> [response |-> Nil, err |-> "nil"]]
    /\ nextId = 0
    /\ requests = {}
    /\ replies = [b \in Bodies |-> 0]
    /\ replyCount = 0
    /\ handlerPc = "idle"
    /\ handlerMsg = Nil
    /\ arrival = [c \in Calls |-> "none"]
    /\ discarded = Nil

\* CreateUUID(): an identifier no earlier call has been given.
CreateUUID == nextId + 1

\* Route: msg.Id = String(CreateUUID()); Marshal(msg) succeeds.
RouteBegin(c) ==
    /\ rpc[c] = "idle"
    /\ msgId' = [msgId EXCEPT ![c] = CreateUUID]
    /\ nextId' = nextId + 1
    /\ rpc' = [rpc EXCEPT ![c] = "register"]
    /\ UNCHANGED <<pendingRequests, mu, responseChan, timer, result, requests,
                   replies, replyCount, handlerPc, handlerMsg, arrival,
                   discarded>>
    /\ UNCHANGED otherThanRouter

\* Route: Marshal(msg) fails, the call returns "MARSHAL ERROR".
RouteMarshalError(c) ==
    /\ rpc[c] = "idle"
    /\ msgId' = [msgId EXCEPT ![c] = CreateUUID]
    /\ nextId' = nextId + 1
    /\ result' = [result EXCEPT ![c] = [response |-> Nil, err |-> "MARSHAL ERROR"]]
    /\ rpc' = [rpc EXCEPT ![c] = "done"]
    /\ UNCHANGED <<pendingRequests, mu, responseChan, timer, requests, replies,
                   replyCount, handlerPc, handlerMsg, arrival,
                   discarded>>
    /\ UNCHANGED otherThanRouter

\* sr.pendingRequests[msg.GetId()] = responseChan
insert(table, id, c) ==
    [i \in DOMAIN table \cup {id} |-> IF i = id THEN c ELSE table[i]]

\* Faulty variant of delete: the entry stays in the table.
deleteNothing(table, id) == table

\* delete(sr.pendingRequests, msg.GetId())
delete(table, id) == [i \in DOMAIN table \ {id} |-> table[i]]

\* Faulty variant of RouteRegister: the request is published first and the
\* waiter is inserted in the table afterwards.
RoutePublishFirst(c) ==
    /\ rpc[c] = "register"
    /\ IF c \notin requests
       THEN /\ requests' = requests \cup {c}
            /\ UNCHANGED <<pendingRequests, rpc>>
       ELSE /\ mu = "free"
            /\ pendingRequests' = insert(pendingRequests, msgId[c], c)
            /\ rpc' = [rpc EXCEPT ![c] = "publish"]
            /\ UNCHANGED requests
    /\ UNCHANGED <<mu, msgId, responseChan, timer, result, nextId,
                   replies, replyCount, handlerPc, handlerMsg, arrival,
                   discarded>>
    /\ UNCHANGED otherThanRouter

\* Route: mu.Lock(); insert; mu.Unlock()
RouteRegister(c) ==
    /\ rpc[c] = "register"
    /\ mu = "free"
    /\ pendingRequests' = insert(pendingRequests, msgId[c], c)
    /\ rpc' = [rpc EXCEPT ![c] = "publish"]
    /\ UNCHANGED <<mu, msgId, responseChan, timer, result, nextId, requests,
                   replies, replyCount, handlerPc, handlerMsg, arrival,
                   discarded>>
    /\ UNCHANGED otherThanRouter

\* Route: sr.publisher.Publish(...)
RoutePublish(c) ==
    /\ rpc[c] = "publish"
    /\ requests' = requests \cup {c}
    /\ rpc' = [rpc EXCEPT ![c] = "select"]
    /\ UNCHANGED <<pendingRequests, mu, msgId, responseChan, timer, result,
                   nextId, replies, replyCount, handlerPc, handlerMsg,
                   arrival,
                   discarded>>
    /\ UNCHANGED otherThanRouter

\* Route enters the select: time.After(timeout) starts the timer.
RouteSelect(c) ==
    /\ rpc[c] = "select"
    /\ timer' = [timer EXCEPT ![c] = "running"]
    /\ rpc' = [rpc EXCEPT ![c] = "waiting"]
    /\ UNCHANGED <<pendingRequests, mu, msgId, responseChan, result, nextId,
                   requests, replies, replyCount, handlerPc, handlerMsg,
                   arrival,
                   discarded>>
    /\ UNCHANGED otherThanRouter

\* The timeout elapses: a value is ready on the channel of time.After.
TimerFire(c) ==
    /\ rpc[c] = "waiting"
    /\ timer[c] = "running"
    /\ timer' = [timer EXCEPT ![c] = "fired"]
    /\ UNCHANGED <<pendingRequests, mu, rpc, msgId, responseChan, result,
                   nextId, requests, replies, replyCount, handlerPc, handlerMsg,
                   arrival,
                   discarded>>
    /\ UNCHANGED otherThanRouter

\* case response = <-responseChan
RouteSelectReply(c) ==
    /\ rpc[c] = "waiting"
    /\ responseChan[c] # <<>>
    /\ result' = [result EXCEPT ![c] = [response |-> Head(responseChan[c]),
                                        err |-> "nil"]]
    /\ responseChan' = [responseChan EXCEPT ![c] = Tail(@)]
    /\ rpc' = [rpc EXCEPT ![c] = "delete"]
    /\ UNCHANGED <<pendingRequests, mu, msgId, timer, nextId, requests, replies,
                   replyCount, handlerPc, handlerMsg, arrival,
                   discarded>>
    /\ UNCHANGED otherThanRouter

\* Faulty variant of RouteSelectTimeout: the timeout case is taken although the
\* timeout has not elapsed.
RouteSelectTimeoutEarly(c) ==
    /\ rpc[c] = "waiting"
    /\ result' = [result EXCEPT ![c] = [response |-> Nil, err |-> "TIMEOUT"]]
    /\ rpc' = [rpc EXCEPT ![c] = "delete"]
    /\ UNCHANGED <<pendingRequests, mu, msgId, responseChan, timer, nextId,
                   requests, replies, replyCount, handlerPc, handlerMsg,
                   arrival,
                   discarded>>
    /\ UNCHANGED otherThanRouter

\* case <-time.After(timeout): err = errors.New("TIMEOUT")
RouteSelectTimeout(c) ==
    /\ rpc[c] = "waiting"
    /\ timer[c] = "fired"
    /\ result' = [result EXCEPT ![c] = [response |-> Nil, err |-> "TIMEOUT"]]
    /\ rpc' = [rpc EXCEPT ![c] = "delete"]
    /\ UNCHANGED <<pendingRequests, mu, msgId, responseChan, timer, nextId,
                   requests, replies, replyCount, handlerPc, handlerMsg,
                   arrival,
                   discarded>>
    /\ UNCHANGED otherThanRouter

\* Route: mu.Lock(); delete; mu.Unlock(); return response, err
RouteDelete(c) ==
    /\ rpc[c] = "delete"
    /\ mu = "free"
    /\ pendingRequests' = delete(pendingRequests, msgId[c])
    /\ rpc' = [rpc EXCEPT ![c] = "done"]
    /\ UNCHANGED <<mu, msgId, responseChan, timer, result, nextId, requests,
                   replies, replyCount, handlerPc, handlerMsg, arrival,
                   discarded>>
    /\ UNCHANGED otherThanRouter

\* A responder that received the request of call c publishes a reply
\* bearing its identifier to the router's reply topic.
Respond(c) ==
    /\ c \in requests
    /\ replyCount < MaxReplies
    /\ replies' = [replies EXCEPT ![[valid |-> TRUE, id |-> msgId[c]]] = @ + 1]
    /\ replyCount' = replyCount + 1
    /\ UNCHANGED <<pendingRequests, mu, rpc, msgId, responseChan, timer, result,
                   nextId, requests, handlerPc, handlerMsg, arrival,
                   discarded>>
    /\ UNCHANGED otherThanRouter

\* A body that answers no request arrives on the reply topic: one that does
\* not decode, or one bearing an identifier that was never issued.
Stray(valid) ==
    /\ replyCount < MaxReplies
    /\ replies' = [replies EXCEPT ![[valid |-> valid, id |-> 0]] = @ + 1]
    /\ replyCount' = replyCount + 1
    /\ UNCHANGED <<pendingRequests, mu, rpc, msgId, responseChan, timer, result,
                   nextId, requests, handlerPc, handlerMsg, arrival,
                   discarded>>
    /\ UNCHANGED otherThanRouter

\* Unmarshal(body, routedMessage) returns nil
Unmarshal(body) == body.valid

\* replyChan, exists := router.pendingRequests[routedMessage.GetId()]
exists(routedMessage) == routedMessage.id \in DOMAIN pendingRequests

\* Faulty variant of replyChan: the handler takes the waiter of the oldest pending
\* request, whatever identifier the reply bears.
replyChanOldest(routedMessage) ==
    pendingRequests[CHOOSE i \in DOMAIN pendingRequests :
                        \A j \in DOMAIN pendingRequests : i <= j]

replyChan(routedMessage) == pendingRequests[routedMessage.id]

\* replyChan <- routedMessage, once the channel has room
send(c, routedMessage) ==
    /\ responseChan' = [responseChan EXCEPT ![c] = Append(@, routedMessage)]
    /\ arrival' = [arrival EXCEPT ![c] =
            IF @ # "none" THEN @
            ELSE IF rpc[c] \in {"delete", "done"} THEN "afterChoice"
            ELSE IF timer[c] = "fired" THEN "afterFire"
            ELSE "beforeFire"]

\* Faulty variant of HandlerReceive: a reply bearing an identifier that is not
\* in the table is handed to the waiter of some pending request.
HandlerReceiveUnknownToAny(body) ==
    /\ handlerPc = "idle"
    /\ replies[body] > 0
    /\ mu = "free"
    /\ replies' = [replies EXCEPT ![body] = @ - 1]
    /\ IF Unmarshal(body) /\ DOMAIN pendingRequests # {}
       THEN LET c == IF exists(body) THEN replyChan(body)
                     ELSE replyChanOldest(body)
            IN IF Len(responseChan[c]) < ResponseChanCap
               THEN /\ send(c, body)
                    /\ UNCHANGED <<mu, handlerPc, handlerMsg, discarded>>
               ELSE /\ discarded' = body
                    /\ UNCHANGED <<mu, handlerPc, handlerMsg, responseChan,
                                   arrival>>
       ELSE /\ discarded' = body
            /\ UNCHANGED <<mu, handlerPc, handlerMsg, responseChan, arrival>>
    /\ UNCHANGED <<pendingRequests, rpc, msgId, timer, result, nextId, requests,
                   replyCount>>
    /\ UNCHANGED otherThanRouter

\* The reply handler of NewStandardRouter, up to the point where it returns
\* or blocks in replyChan <- routedMessage with the lock held. A body that
\* does not decode, or whose identifier is not a key of the table, is dropped.
HandlerReceive(body) ==
    /\ handlerPc = "idle"
    /\ replies[body] > 0
    /\ mu = "free"
    /\ replies' = [replies EXCEPT ![body] = @ - 1]
    /\ IF Unmarshal(body) /\ exists(body)
       THEN IF Len(responseChan[replyChan(body)]) < ResponseChanCap
            THEN /\ send(replyChan(body), body)
                 /\ UNCHANGED <<mu, handlerPc, handlerMsg, discarded>>
            ELSE /\ mu' = "handler"
                 /\ handlerPc' = "blocked"
                 /\ handlerMsg' = body
                 /\ UNCHANGED <<responseChan, arrival, discarded>>
       ELSE /\ discarded' = body
            /\ UNCHANGED <<mu, handlerPc, handlerMsg, responseChan, arrival>>
    /\ UNCHANGED <<pendingRequests, rpc, msgId, timer, result, nextId, requests,
                   replyCount>>
    /\ UNCHANGED otherThanRouter

\* The blocked send of the handler proceeds; router.mu.Unlock(); return nil
HandlerSend ==
    /\ handlerPc = "blocked"
    /\ Len(responseChan[replyChan(handlerMsg)]) < ResponseChanCap
    /\ send(replyChan(handlerMsg), handlerMsg)
    /\ mu' = "free"
    /\ handlerPc' = "idle"
    /\ handlerMsg' = Nil
    /\ UNCHANGED <<pendingRequests, rpc, msgId, timer, result, nextId, requests,
                   replies, replyCount,
                   discarded>>
    /\ UNCHANGED otherThanRouter

RouterNext ==
    \/ \E c \in Calls : RouteBegin(c)
    \/ \E c \in Calls : RouteMarshalError(c)
    \/ \E c \in Calls : RouteRegister(c)
    \/ \E c \in Calls : RoutePublish(c)
    \/ \E c \in Calls : RouteSelect(c)
    \/ \E c \in Calls : TimerFire(c)
    \/ \E c \in Calls : RouteSelectReply(c)
    \/ \E c \in Calls : RouteSelectTimeout(c)
    \/ \E c \in Calls : RouteDelete(c)
    \/ \E c \in Calls : Respond(c)
    \/ \E valid \in BOOLEAN : Stray(valid)
    \/ \E body \in Bodies : HandlerReceive(body)
    \/ HandlerSend

\* --------------------------------------------------------- service: actions
Invs == 1..MaxInv
\* quit := make(chan bool, 1)
QuitCap == 1

SvcInit ==
    /\ preventPanics = TRUE
    /\ running = FALSE
    /\ stillConsuming = FALSE
    /\ consumedWorkCount = 0
    /\ sigPc = "off"
    /\ inFlightAtSignal = {}
    /\ crashed = FALSE
    /\ wpc = [i \in Invs |-> "idle"]
    /\ cur = [i \in Invs |-> FALSE]
    /\ sends = [i \in Invs |-> 0]
    /\ quitCh = [i \in Invs |-> 0]
    /\ hpc = [i \in Invs |-> "off"]
    /\ beats = [i \in Invs |-> 0]
    /\ forwarded = [i \in Invs |-> 0]
    /\ errorReplies = [i \in Invs |-> 0]
    /\ diag = [i \in Invs |-> 0]
    /\ panicked = [i \in Invs |-> FALSE]

\* The process is running: no os.Exit, no unrecovered panic.
Alive == sigPc # "exited" /\ ~crashed

\* The wrapper of invocation i has started and has not returned.
InFlight(i) == wpc[i] \notin {"idle", "dropped", "returned"}

\* getConsumerWorkCount(): consumedWorkCount, read under its mutex.
getConsumerWorkCount == consumedWorkCount

\* Service.Run: stillConsuming = true, the signal goroutine is spawned and
\* the subscriber runs. The process has been started with
\* PLATFORM_PREVENT_PANICS unset or "1", or with another value.
ServiceRun ==
    /\ ~running
    /\ running' = TRUE
    /\ stillConsuming' = TRUE
    /\ sigPc' = "wait"
    /\ preventPanics' \in BOOLEAN
    /\ UNCHANGED <<consumedWorkCount, inFlightAtSignal, crashed,
                   wpc, cur, sends, quitCh, hpc, beats, forwarded, errorReplies,
                   diag, panicked>>
    /\ UNCHANGED otherThanSvc

\* case <-sigc: stillConsuming = false
Signal ==
    /\ Alive
    /\ sigPc = "wait"
    /\ sigPc' = "poll"
    /\ stillConsuming' = FALSE
    /\ inFlightAtSignal' = { i \in Invs : InFlight(i) }
    /\ UNCHANGED <<preventPanics, running, consumedWorkCount, crashed, wpc, cur,
                   sends, quitCh, hpc, beats, forwarded, errorReplies, diag,
                   panicked>>
    /\ UNCHANGED otherThanSvc

\* if getConsumerWorkCount() < 1 { time.Sleep(...); break }
SignalPoll ==
    /\ Alive
    /\ sigPc = "poll"
    /\ getConsumerWorkCount < 1
    /\ sigPc' = "sleep"
    /\ UNCHANGED <<preventPanics, running, stillConsuming, consumedWorkCount,
                   inFlightAtSignal, crashed, wpc, cur, sends, quitCh, hpc,
                   beats, forwarded, errorReplies, diag, panicked>>
    /\ UNCHANGED otherThanSvc

\* os.Exit(0)
SignalExit ==
    /\ Alive
    /\ sigPc = "sleep"
    /\ sigPc' = "exited"
    /\ UNCHANGED <<preventPanics, running, stillConsuming, consumedWorkCount,
                   inFlightAtSignal, crashed, wpc, cur, sends, quitCh, hpc,
                   beats, forwarded, errorReplies, diag, panicked>>
    /\ UNCHANGED otherThanSvc

\* Faulty variant of Receive: the heartbeat courier is made before the
\* request is decoded, so a body that does not decode leaves a heartbeat
\* goroutine behind.
ReceiveCourierFirst(i, decodes) ==
    /\ Alive
    /\ running
    /\ wpc[i] \in {"idle", "dropped"}
    /\ hpc' = [hpc EXCEPT ![i] = "select"]
    /\ wpc' = [wpc EXCEPT ![i] = IF decodes THEN "handle" ELSE "dropped"]
    /\ UNCHANGED <<preventPanics, running, stillConsuming, consumedWorkCount,
                   sigPc, inFlightAtSignal, crashed, cur, sends, quitCh, beats,
                   forwarded, errorReplies, diag, panicked>>
    /\ UNCHANGED otherThanSvc

\* The wrapper of AddHandler receives a request: Unmarshal, then
\* NewRequestHeartbeatCourier spawns the heartbeat goroutine and
\* handler.Handle is called. A body that does not decode makes it return nil
\* ("dropped"): the wrapper has left nothing behind, and the next request
\* delivered to it takes the place of the dropped one.
Receive(i, decodes) ==
    /\ Alive
    /\ running
    /\ wpc[i] \in {"idle", "dropped"}
    /\ IF decodes
       THEN /\ wpc' = [wpc EXCEPT ![i] = "handle"]
            /\ hpc' = [hpc EXCEPT ![i] = "select"]
       ELSE /\ wpc' = [wpc EXCEPT ![i] = "dropped"]
            /\ UNCHANGED hpc
    /\ UNCHANGED <<preventPanics, running, stillConsuming, consumedWorkCount,
                   sigPc, inFlightAtSignal, crashed, cur, sends, quitCh, beats,
                   forwarded, errorReplies, diag, panicked>>
    /\ UNCHANGED otherThanSvc

\* The handler calls requestHeartbeatCourier.Send(response).
HandlerSends(i, completed) ==
    /\ Alive
    /\ wpc[i] = "handle"
    /\ sends[i] < MaxSends
    /\ sends' = [sends EXCEPT ![i] = @ + 1]
    /\ cur' = [cur EXCEPT ![i] = completed]
    /\ wpc' = [wpc EXCEPT ![i] = IF completed THEN "sendQuit" ELSE "sendParent"]
    /\ UNCHANGED <<preventPanics, running, stillConsuming, consumedWorkCount,
                   sigPc, inFlightAtSignal, crashed, quitCh, hpc, beats,
                   forwarded, errorReplies, diag, panicked>>
    /\ UNCHANGED otherThanSvc

\* RequestHeartbeatCourier.Send: rhc.quit <- true, which waits for room in
\* the channel.
SendQuit(i) ==
    /\ Alive
    /\ wpc[i] \in {"sendQuit", "recoverQuit"}
    /\ quitCh[i] < QuitCap
    /\ quitCh' = [quitCh EXCEPT ![i] = @ + 1]
    /\ wpc' = [wpc EXCEPT ![i] = IF @ = "sendQuit" THEN "sendParent"
                                 ELSE "recoverParent"]
    /\ UNCHANGED <<preventPanics, running, stillConsuming, consumedWorkCount,
                   sigPc, inFlightAtSignal, crashed, cur, sends, hpc, beats,
                   forwarded, errorReplies, diag, panicked>>
    /\ UNCHANGED otherThanSvc

\* RequestHeartbeatCourier.Send: rhc.parent.Send(response), and Send returns
\* to the handler or to the recovery.
SendParent(i) ==
    /\ Alive
    /\ wpc[i] \in {"sendParent", "recoverParent"}
    /\ forwarded' = [forwarded EXCEPT ![i] = IF cur[i] THEN @ + 1 ELSE @]
    /\ errorReplies' = [errorReplies EXCEPT ![i] =
                            IF wpc[i] = "recoverParent" THEN @ + 1 ELSE @]
    /\ cur' = [cur EXCEPT ![i] = FALSE]
    /\ wpc' = [wpc EXCEPT ![i] = IF @ = "sendParent" THEN "handle"
                                 ELSE "publish"]
    /\ UNCHANGED <<preventPanics, running, stillConsuming, consumedWorkCount,
                   sigPc, inFlightAtSignal, crashed, sends, quitCh, hpc, beats,
                   diag, panicked>>
    /\ UNCHANGED otherThanSvc

\* handler.Handle returns; the deferred function finds nothing to recover and
\* the wrapper returns nil.
HandlerReturns(i) ==
    /\ Alive
    /\ wpc[i] = "handle"
    /\ wpc' = [wpc EXCEPT ![i] = "returned"]
    /\ UNCHANGED <<preventPanics, running, stillConsuming, consumedWorkCount,
                   sigPc, inFlightAtSignal, crashed, cur, sends, quitCh, hpc,
                   beats, forwarded, errorReplies, diag, panicked>>
    /\ UNCHANGED otherThanSvc

\* handler.Handle panics. With PLATFORM_PREVENT_PANICS the deferred function
\* recovers and calls requestHeartbeatCourier.Send with a completed error
\* reply; without it the panic ends the process.
HandlerPanics(i) ==
    /\ Alive
    /\ wpc[i] = "handle"
    /\ panicked' = [panicked EXCEPT ![i] = TRUE]
    /\ IF preventPanics
       THEN /\ wpc' = [wpc EXCEPT ![i] = "recoverQuit"]
            /\ cur' = [cur EXCEPT ![i] = TRUE]
            /\ UNCHANGED crashed
       ELSE /\ crashed' = TRUE
            /\ UNCHANGED <<wpc, cur>>
    /\ UNCHANGED <<preventPanics, running, stillConsuming, consumedWorkCount,
                   sigPc, inFlightAtSignal, sends, quitCh, hpc, beats,
                   forwarded, errorReplies, diag>>
    /\ UNCHANGED otherThanSvc

\* The recovery: s.publisher.Publish("panic."+path, p); the wrapper returns.
RecoverPublish(i) ==
    /\ Alive
    /\ wpc[i] = "publish"
    /\ diag' = [diag EXCEPT ![i] = @ + 1]
    /\ wpc' = [wpc EXCEPT ![i] = "returned"]
    /\ UNCHANGED <<preventPanics, running, stillConsuming, consumedWorkCount,
                   sigPc, inFlightAtSignal, crashed, cur, sends, quitCh, hpc,
                   beats, forwarded, errorReplies, panicked>>
    /\ UNCHANGED otherThanSvc

\* Heartbeat goroutine: case <-time.After(500 * time.Millisecond)
HeartbeatTick(i) ==
    /\ Alive
    /\ hpc[i] = "select"
    /\ beats[i] < MaxBeats
    /\ hpc' = [hpc EXCEPT ![i] = "send"]
    /\ UNCHANGED <<preventPanics, running, stillConsuming, consumedWorkCount,
                   sigPc, inFlightAtSignal, crashed, wpc, cur, sends, quitCh,
                   beats, forwarded, errorReplies, diag, panicked>>
    /\ UNCHANGED otherThanSvc

\* Heartbeat goroutine: parent.Send(GenerateResponse(request, heartbeat))
HeartbeatSend(i) ==
    /\ Alive
    /\ hpc[i] = "send"
    /\ beats' = [beats EXCEPT ![i] = @ + 1]
    /\ hpc' = [hpc EXCEPT ![i] = "select"]
    /\ UNCHANGED <<preventPanics, running, stillConsuming, consumedWorkCount,
                   sigPc, inFlightAtSignal, crashed, wpc, cur, sends, quitCh,
                   forwarded, errorReplies, diag, panicked>>
    /\ UNCHANGED otherThanSvc

\* Heartbeat goroutine: case <-quit: return
HeartbeatQuit(i) ==
    /\ Alive
    /\ hpc[i] = "select"
    /\ quitCh[i] > 0
    /\ quitCh' = [quitCh EXCEPT ![i] = @ - 1]
    /\ hpc' = [hpc EXCEPT ![i] = "exited"]
    /\ UNCHANGED <<preventPanics, running, stillConsuming, consumedWorkCount,
                   sigPc, inFlightAtSignal, crashed, wpc, cur, sends, beats,
                   forwarded, errorReplies, diag, panicked>>
    /\ UNCHANGED otherThanSvc

\* The signal goroutine of Service.Run.
SvcSignalNext ==
    \/ Signal
    \/ SignalPoll
    \/ SignalExit

\* Service.Run and the wrapper of AddHandler with its heartbeat goroutine.
SvcHandlerNext ==
    \/ ServiceRun
    \/ \E i \in Invs, decodes \in BOOLEAN : Receive(i, decodes)
    \/ \E i \in Invs, completed \in BOOLEAN : HandlerSends(i, completed)
    \/ \E i \in Invs : SendQuit(i)
    \/ \E i \in Invs : SendParent(i)
    \/ \E i \in Invs : HandlerReturns(i)
    \/ \E i \in Invs : HandlerPanics(i)
    \/ \E i \in Invs : RecoverPublish(i)
    \/ \E i \in Invs : HeartbeatTick(i)
    \/ \E i \in Invs : HeartbeatSend(i)
    \/ \E i \in Invs : HeartbeatQuit(i)

SvcNext ==
    \/ SvcHandlerNext
    \/ SvcSignalNext

\* ------------------------------------------- the two handlers of envelopes
\* The wrapper of AddHandler and the reply handler of the router are both
\* handlers of the subscriber and share no state. They are taken one after
\* the other: the service handles its requests while the router has not been
\* used, and the router is used once the service, with containment on, has
\* dropped the requests delivered to it and holds nothing else.
RouterUnused == nextId = 0 /\ replyCount = 0

ServiceDroppedAll ==
    /\ running
    /\ preventPanics
    /\ \A i \in Invs : wpc[i] = "dropped"

EnvelopeNext ==
    \/ RouterUnused /\ SvcHandlerNext
    \/ ServiceDroppedAll /\ RouterNext

\* --------------------------------------------------------- courier: actions
\* responses := make(chan *Request, 10)
CourierCap == 10

\* The destination stacks (Routing.RouteTo, as URIs) of the replies passed to
\* Courier.Send: empty, one entry, or two entries in either order.
Stacks == { <<>>, <<"a">>, <<"a", "b">>, <<"b", "a">> }

CourierInit ==
    /\ responses = <<>>
    /\ published = <<>>
    /\ courierSent = 0
    /\ sentRouteTo = <<>>
    /\ sendPanics = 0
    /\ courierCrashed = FALSE

\* response.Routing.RouteTo[0].GetUri() of the log line of Courier.Send: an
\* index out of range on an empty stack.
IndexPanics(routeTo, index) == index < 0 \/ index >= Len(routeTo)

\* Courier.Send: the log line reads RouteTo[0], then c.responses <- response,
\* which waits for room in the channel. The panic of the log line unwinds
\* the caller: the wrapper of AddHandler recovers it when
\* PLATFORM_PREVENT_PANICS is on, the heartbeat goroutine does not.
CourierSend(routeTo, recovered) ==
    /\ ~courierCrashed
    /\ courierSent < MaxCourierSends
    /\ courierSent' = courierSent + 1
    /\ sentRouteTo' = Append(sentRouteTo, routeTo)
    /\ IF IndexPanics(routeTo, 0)
       THEN /\ sendPanics' = sendPanics + 1
            /\ courierCrashed' = ~recovered
            /\ UNCHANGED responses
       ELSE /\ Len(responses) < CourierCap
            /\ responses' = Append(responses,
                                   [n |-> courierSent + 1, routeTo |-> routeTo])
            /\ UNCHANGED <<sendPanics, courierCrashed>>
    /\ UNCHANGED published
    /\ UNCHANGED otherThanCourier

\* Faulty variant of CourierPublish: the first entry of RouteTo, not the last,
\* is taken as the destination and cut off the stack.
CourierPublishFirstEntry(marshals) ==
    /\ ~courierCrashed
    /\ responses # <<>>
    /\ LET response == Head(responses)
       IN IF IndexPanics(response.routeTo, 0)
          THEN /\ courierCrashed' = TRUE
               /\ UNCHANGED published
          ELSE /\ UNCHANGED courierCrashed
               /\ IF marshals
                  THEN published' = Append(published,
                          [n |-> response.n,
                           topic |-> response.routeTo[1],
                           routeTo |-> Tail(response.routeTo)])
                  ELSE UNCHANGED published
    /\ responses' = Tail(responses)
    /\ UNCHANGED <<courierSent, sentRouteTo, sendPanics>>
    /\ UNCHANGED otherThanCourier

\* The goroutine of NewCourier, one iteration of range responses: the last
\* entry of RouteTo is the destination and is cut off the stack; the reply
\* is published to its URI unless Marshal fails.
CourierPublish(marshals) ==
    /\ ~courierCrashed
    /\ responses # <<>>
    /\ LET response == Head(responses)
           destinationRouteIndex == Len(response.routeTo) - 1
       IN IF IndexPanics(response.routeTo, destinationRouteIndex)
          THEN /\ courierCrashed' = TRUE
               /\ UNCHANGED published
          ELSE /\ UNCHANGED courierCrashed
               /\ IF marshals
                  THEN published' = Append(published,
                          [n |-> response.n,
                           topic |-> response.routeTo[destinationRouteIndex + 1],
                           routeTo |-> SubSeq(response.routeTo, 1,
                                              destinationRouteIndex)])
                  ELSE UNCHANGED published
    /\ responses' = Tail(responses)
    /\ UNCHANGED <<courierSent, sentRouteTo, sendPanics>>
    /\ UNCHANGED otherThanCourier

CourierNext ==
    \/ \E routeTo \in Stacks, recovered \in BOOLEAN : CourierSend(routeTo, recovered)
    \/ \E marshals \in BOOLEAN : CourierPublish(marshals)

vars == <<subVars, routerVars, svcVars, courierVars>>

Init == SubInit /\ RouterInit /\ SvcInit /\ CourierInit

SubscriberSpec == Init /\ [][SubNext]_vars
SubscriberLifecycleSpec == Init /\ [][SubLifecycleNext]_vars
SubscriberDispatchSpec == Init /\ [][SubDispatchNext]_vars
RouterSpec == Init /\ [][RouterNext]_vars
ServiceSpec == Init /\ [][SvcNext]_vars
CourierSpec == Init /\ [][CourierNext]_vars
EnvelopeSpec == Init /\ [][EnvelopeNext]_vars

\* --------------------------------------------------- subscriber: properties
\* C1: every message is placed in at most one inbox, the inbox of the first
\* subscription in registration order whose canHandle accepts it, and is
\* rejected when no subscription accepts it.
C1_DispatchToFirstMatchOnly ==
    last.id # 0 =>
        /\ Cardinality(last.placed) <= 1
        /\ last.placed \subseteq {last.first}
        /\ (last.first = 0 => last.rejected)

\* C4: the dispatch loop runs, and a message is read, only on a channel on
\* which the queue was declared, every registered topic was bound and
\* Consume succeeded; after the connection or the channel reported closed,
\* the loop goes on with a new dial, with the locals of the old cycle gone.
C4_ReconnectRebindsBeforeDispatch ==
    /\ [](pc = "dispatch" => (declared /\ consuming /\ bound = AllTopics))
    /\ [][nextMsg' # nextMsg =>
            (pc = "dispatch" /\ declared /\ consuming /\ bound = AllTopics)]_vars
    /\ [][(pc = "returned" /\ pc' # "returned"
           /\ exitCause \in {"connectionClosed", "channelInterfaceClosed"})
          => (pc' = "dial" /\ bound' = {} /\ ~declared' /\ ~consuming'
              /\ subscriptions' = subscriptions)]_vars

\* C4 witness: after a disconnect ended a dispatch loop, a later cycle is
\* dispatching again with both registered topics bound anew.
C4_Witness ==
    /\ reconnected
    /\ pc = "dispatch"
    /\ Len(subscriptions) = 2
    /\ bound = AllTopics
    /\ Cardinality(bound) = 2

\* C8: Run has returned only if a cycle went through dial, channel, declare,
\* the bind of every registered topic and Consume; the channel Run waits on
\* is closed by the successful Consume step alone, and a step of run() that
\* returns an error releases nobody.
C8_RunReturnsAfterFirstBoundCycle ==
    /\ [](callerPc = "returned" => (startedClosed /\ AllTopics \subseteq everBound))
    /\ [][(~startedClosed /\ startedClosed') =>
            (pc = "bind" /\ pc' = "dispatch" /\ declared /\ consuming'
             /\ bound = AllTopics)]_vars
    /\ [][(pc # "returned" /\ pc' = "returned" /\ err' = "error") =>
            (startedClosed' = startedClosed /\ callerPc' = callerPc)]_vars

\* C8 witness: Run has returned with two subscriptions registered.
C8_Witness ==
    /\ callerPc = "returned"
    /\ Len(subscriptions) = 2

\* C9: run() returns subscriberClosed exactly when the quit case fired and
\* nil when the connection or channel reported closed; after run() returned
\* the outer loop stops if and only if the cause was quit, and otherwise
\* starts another cycle; once stopped it stays stopped.
C9_TerminalVersusRetryableExit ==
    /\ [](pc = "returned" =>
            /\ (exitCause = "quit") = (err = "subscriberClosed")
            /\ (exitCause \in {"connectionClosed", "channelInterfaceClosed"}
                    => err = "nil")
            /\ (exitCause \in {"dial", "channel", "declare", "bind", "consume"}
                    => err = "error"))
    /\ [][(pc = "returned" /\ pc' # "returned") =>
            IF exitCause = "quit" THEN pc' = "stopped" ELSE pc' = "dial"]_vars
    /\ [][pc' = "stopped" => (pc = "stopped" \/ exitCause = "quit")]_vars
    /\ [][pc = "stopped" => pc' = "stopped"]_vars

\* C9 witness: the loop has retried after a disconnect and has then been
\* stopped by the quit signal.
C9_Witness ==
    /\ pc = "stopped"
    /\ reconnected
    /\ closed

\* C10: once Close has been called, the reconnect loop starts no further
\* dial / declare / bind cycle.
C10_NoCycleAfterClose ==
    [][(closed /\ pc = "returned") => pc' # "dial"]_vars

\* C10 witness of the failing case: the subscriber is closed and the loop is
\* dialing again.
C10_DialAfterClose ==
    /\ closed
    /\ pc = "dial"
    /\ exitCause = "none"
    /\ callerPc # "init"

\* C17: Close is idempotent. s.quit is closed at most once, and exactly when
\* s.closed is set; the Close that finds the subscriber open closes every
\* subscription registered at that time; once the subscriber is closed, no
\* later step, a further Close included, reopens a subscription or the quit
\* signal, closes the quit signal again or clears s.closed; and a Close on a
\* closed subscriber changes nothing of the subscriber.
C17_CloseIdempotent ==
    /\ [](/\ quitCloses <= 1
          /\ (closed <=> quitCloses = 1)
          /\ (closed <=> quit = "closed"))
    /\ [][(Close /\ ~closed) =>
              /\ closed' /\ quit' = "closed"
              /\ DOMAIN subscriptions' = DOMAIN subscriptions
              /\ \A i \in DOMAIN subscriptions : ~subscriptions'[i].open]_vars
    /\ [][closed => /\ closed' /\ quit' = "closed"
                    /\ quitCloses' = quitCloses
                    /\ \A i \in DOMAIN subscriptions :
                          ~subscriptions[i].open => ~subscriptions'[i].open]_vars
    /\ [][(Close /\ closed) =>
              UNCHANGED <<subscriptions, started, startedClosed, closed, quit,
                          pc, err, cycleVars, callerVars, dispatchVars,
                          everBound, exitCause, reconnected, quitCloses>>]_vars

\* C17: Close has been called again on a subscriber that an earlier Close
\* closed, with subscriptions registered and the loop of Run still going.
C17_Witness ==
    /\ reclosed
    /\ closed /\ quitCloses = 1
    /\ subscriptions # <<>>
    /\ pc \notin {"idle", "stopped"}


\* C16: a message is rejected if and only if it was placed in no inbox, and
\* it is rejected whenever no subscription accepts it or the inbox of the
\* matching subscription, the first in registration order that accepts it,
\* had no room.
C16_RejectedIffNotEnqueued ==
    last.id # 0 =>
        /\ last.rejected <=> (last.placed = {})
        /\ (last.first = 0 \/ last.first \notin last.placed) => last.rejected

\* C16 witness of the failing case: the inbox of the first subscription that
\* accepts the message was full, and the message was not rejected but placed
\* in the inbox of a later subscription.
C16_FullFirstMatchNotRejected ==
    /\ last.id # 0
    /\ last.first # 0
    /\ last.first \notin last.placed
    /\ last.placed # {}
    /\ ~last.rejected

\* C20: the deliveries waiting in a subscription's inbox are messages of the
\* consume stream that the subscription accepts, in the order the stream
\* delivered them and each at most once; the dispatch loop only ever adds
\* the message it has just read at the tail of an inbox, and the receiver
\* only takes the head, so a message rejected for a full inbox is absent
\* and moves no other.
C20_InboxOrder ==
    /\ [](\A i \in DOMAIN subscriptions :
            LET d == subscriptions[i].deliveries
            IN /\ \A k \in DOMAIN d : /\ canHandle(subscriptions[i], d[k])
                                      /\ d[k].id \in 1..nextMsg
               /\ \A k, l \in DOMAIN d : k < l => d[k].id < d[l].id)
    /\ [][\A i \in DOMAIN subscriptions :
            LET d == subscriptions[i].deliveries
                e == subscriptions'[i].deliveries
            IN \/ e = d
               \/ d # <<>> /\ e = Tail(d)
               \/ /\ nextMsg' = nextMsg + 1
                  /\ Len(e) = Len(d) + 1
                  /\ SubSeq(e, 1, Len(d)) = d
                  /\ e[Len(e)].id = nextMsg']_vars

\* C20: one inbox holds two deliveries, the earlier message of the stream
\* ahead of the later one, while the inbox of another subscription, which
\* does not accept the earlier message, holds the later one alone.
C20_Witness ==
    \E i, j \in DOMAIN subscriptions :
        LET d == subscriptions[i].deliveries
            e == subscriptions[j].deliveries
        IN /\ Len(d) = 2
           /\ d[1].id < d[2].id
           /\ ~canHandle(subscriptions[j], d[1])
           /\ e = <<d[2]>>

\* ------------------------------------------------------- router: properties
Returned(c) == rpc[c] = "done" /\ result[c].err # "MARSHAL ERROR"

\* C2: a reply bearing identifier X is placed only into the channel of the
\* call whose msg.Id is X, and a call that returns a reply returns one
\* bearing its own identifier; calls never share an identifier.
C2_NoCrossTalk ==
    \A c \in Calls :
        /\ \A k \in 1..Len(responseChan[c]) : responseChan[c][k].id = msgId[c]
        /\ (rpc[c] \in {"delete", "done"} /\ result[c].response # Nil)
                => result[c].response.id = msgId[c]
        /\ \A d \in Calls \ {c} : msgId[c] # 0 => msgId[c] # msgId[d]

\* C2 witness: two calls are outstanding at once; the one that was issued
\* later has returned its reply while the earlier one still waits with its
\* own reply in its channel.
C2_Witness ==
    \E c, d \in Calls :
        /\ msgId[c] # 0 /\ msgId[c] < msgId[d]
        /\ rpc[c] = "waiting" /\ Len(responseChan[c]) = 1
        /\ rpc[d] = "done" /\ result[d].response # Nil

\* C3 as stated: a call whose first matching reply arrived before its timeout
\* fired returns that reply with a nil error; every other call (no reply, or
\* a first reply after the timeout fired) returns TIMEOUT and a nil reply.
C3_TimeoutFidelity ==
    \A c \in Calls : Returned(c) =>
        IF arrival[c] = "beforeFire"
        THEN result[c].err = "nil" /\ result[c].response # Nil
        ELSE result[c].err = "TIMEOUT" /\ result[c].response = Nil

\* C3 amended: TIMEOUT is returned with a nil reply and only after the timer
\* fired; a reply is returned with a nil error, bears the call's identifier
\* and entered the channel before the select chose; a call whose channel
\* received nothing before its select chose returns TIMEOUT; once the select
\* has chosen, no step changes the call's result; after the call returned,
\* its identifier is not in the pending table.
C3_TimeoutFidelityAmended ==
    /\ [](\A c \in Calls : Returned(c) =>
            /\ result[c].err \in {"nil", "TIMEOUT"}
            /\ (result[c].err = "TIMEOUT" =>
                    (result[c].response = Nil /\ timer[c] = "fired"))
            /\ (result[c].err = "nil" =>
                    /\ result[c].response # Nil
                    /\ result[c].response.id = msgId[c]
                    /\ arrival[c] \in {"beforeFire", "afterFire"})
            /\ (arrival[c] \in {"none", "afterChoice"} => result[c].err = "TIMEOUT")
            /\ (timer[c] # "fired" => result[c].err = "nil")
            /\ msgId[c] \notin DOMAIN pendingRequests)
    /\ [][\A c \in Calls : rpc[c] \in {"delete", "done"} =>
            result'[c] = result[c]]_vars

\* C3 witness: a call has returned TIMEOUT and a reply bearing its identifier
\* arrived after its select had taken the timeout case.
C3_Witness ==
    \E c \in Calls :
        /\ Returned(c)
        /\ result[c].err = "TIMEOUT"
        /\ arrival[c] = "afterChoice"
        /\ \E d \in Calls \ {c} : Returned(d) /\ result[d].err = "nil"

\* ------------------------------------------------------ service: properties
\* C5: once a completed reply of an invocation has been forwarded to the
\* parent sender, no further heartbeat of that invocation is sent to the
\* parent sender.
C5_NoHeartbeatAfterCompleted ==
    [][\A i \in Invs : forwarded[i] > 0 => beats'[i] = beats[i]]_vars

\* C5 witness of the failing case: a completed reply has been forwarded while
\* the heartbeat goroutine is past its select, about to send a heartbeat.
C5_HeartbeatPending ==
    \E i \in Invs : forwarded[i] > 0 /\ hpc[i] = "send"

\* C6: with containment enabled, a panic of handler.Handle leads to exactly
\* one completed error reply through the heartbeat-wrapped sender and exactly
\* one publish on "panic."+path, after which the wrapper returns: the
\* recovery is never left waiting on a quit channel that nobody receives
\* from, and the process keeps running.
C6_FaultContainment ==
    \A i \in Invs : (preventPanics /\ panicked[i]) =>
        /\ ~crashed
        /\ errorReplies[i] <= 1
        /\ diag[i] <= 1
        /\ (wpc[i] = "returned" => (errorReplies[i] = 1 /\ diag[i] = 1))
        /\ ~(wpc[i] = "recoverQuit" /\ quitCh[i] = QuitCap /\ hpc[i] = "exited")

\* C6 witness of the failing case: the recovery waits in rhc.quit <- true,
\* the channel is full and the heartbeat goroutine has returned.
C6_RecoveryStuck ==
    \E i \in Invs :
        /\ preventPanics /\ panicked[i]
        /\ wpc[i] = "recoverQuit" /\ quitCh[i] = QuitCap /\ hpc[i] = "exited"
        /\ sigPc = "wait"

\* C7: the in-flight counter is never negative and counts the handler
\* invocations that have begun and not ended, and the process has exited
\* after a signal only if every invocation that was in flight at the signal
\* has completed.
C7_GracefulDrain ==
    /\ consumedWorkCount >= 0
    /\ (sigPc = "exited" => \A i \in inFlightAtSignal : wpc[i] = "returned")
    /\ (Alive => consumedWorkCount = Cardinality({ i \in Invs : InFlight(i) }))

\* C7 witness of the failing case: the process has exited while an invocation
\* that was in flight at the signal is still inside handler.Handle.
C7_ExitWithWorkInFlight ==
    /\ sigPc = "exited"
    /\ \E i \in inFlightAtSignal : wpc[i] = "handle" /\ forwarded[i] = 0

\* C15: for every handler invocation the terminal state is reached exactly
\* once: never more than one completed reply is forwarded for the request,
\* and an invocation whose wrapper has returned has had exactly one
\* completed reply forwarded and its heartbeat goroutine told to stop.
C15_TerminalExactlyOnce ==
    \A i \in Invs :
        /\ forwarded[i] <= 1
        /\ (wpc[i] = "returned" /\ hpc[i] # "off")
               => /\ forwarded[i] = 1
                  /\ (hpc[i] = "exited" \/ quitCh[i] > 0)

\* C15 witness of the failing case: the wrapper has returned after the
\* handler sent two completed replies, and both were forwarded.
C15_TerminalTwice ==
    \E i \in Invs :
        /\ wpc[i] = "returned"
        /\ ~panicked[i]
        /\ forwarded[i] = 2

\* C19: no call of RequestHeartbeatCourier.Send, by the handler or by the
\* panic recovery, waits forever in rhc.quit <- true: a Send never finds the
\* quit channel full after the heartbeat goroutine, its only receiver, has
\* returned.
C19_SendNeverStuck ==
    \A i \in Invs :
        ~(/\ wpc[i] \in {"sendQuit", "recoverQuit"}
          /\ quitCh[i] = QuitCap
          /\ hpc[i] = "exited")

\* C19 witness of the failing case: two completed replies have been
\* forwarded, the heartbeat goroutine took the first quit value and returned,
\* the second fills the channel, and the third completed Send waits in
\* rhc.quit <- true.
C19_ThirdCompletedSendStuck ==
    \E i \in Invs :
        /\ forwarded[i] = 2
        /\ wpc[i] \in {"sendQuit", "recoverQuit"}
        /\ cur[i]
        /\ quitCh[i] = QuitCap
        /\ hpc[i] = "exited"


\* -------------------------------------------------- router: fair scheduling
\* Every goroutine that can take a step eventually takes it, and the timer
\* of time.After fires: each Route call, the timer and the reply handler are
\* scheduled fairly. The select of Route takes one of its ready cases.
RouterFairness ==
    /\ \A c \in Calls :
          /\ WF_vars(RouteRegister(c))
          /\ WF_vars(RoutePublish(c))
          /\ WF_vars(RouteSelect(c))
          /\ WF_vars(TimerFire(c))
          /\ WF_vars(RouteSelectReply(c) \/ RouteSelectTimeout(c))
          /\ WF_vars(RouteDelete(c))
    /\ WF_vars(\E body \in Bodies : HandlerReceive(body))
    /\ WF_vars(HandlerSend)

RouterFairSpec == Init /\ [][RouterNext]_vars /\ RouterFairness

\* C11: every Route call that has started eventually returns, with a reply
\* or with the TIMEOUT error, whatever replies arrive and whenever they do.
C11_RouteReturns ==
    \A c \in Calls : (rpc[c] \notin {"idle", "done"}) ~> (rpc[c] = "done")

\* C11: a Route call whose select chose the timeout waits for the lock while
\* the reply handler holds it, blocked in its send into the full channel of
\* that same call.
C11_RouteAndHandlerStuck ==
    \E c \in Calls :
        /\ rpc[c] = "delete"
        /\ result[c].err = "TIMEOUT"
        /\ mu = "handler"
        /\ handlerPc = "blocked"
        /\ handlerMsg.id = msgId[c]
        /\ Len(responseChan[c]) = ResponseChanCap


\* C12: an identifier is a key of pendingRequests exactly from the moment its
\* Route call registers the waiter until that call returns; the waiter of a
\* key is the channel of the one call that was given the identifier; a call
\* that has returned, by reply or by timeout, has left no entry; and with no
\* Route call outstanding the table is empty.
C12_PendingTable ==
    /\ \A i \in DOMAIN pendingRequests :
          \E c \in Calls :
              /\ msgId[c] = i
              /\ pendingRequests[i] = c
              /\ rpc[c] \in {"publish", "select", "waiting", "delete"}
    /\ \A c \in Calls :
          rpc[c] \in {"publish", "select", "waiting", "delete"}
              => msgId[c] \in DOMAIN pendingRequests
    /\ \A c \in Calls : Returned(c) => msgId[c] \notin DOMAIN pendingRequests
    /\ \A c, d \in Calls : (c # d /\ msgId[c] # 0) => msgId[c] # msgId[d]
    /\ (\A c \in Calls : rpc[c] \in {"idle", "done"})
          => DOMAIN pendingRequests = {}

\* C12: one call has returned with its reply and another with TIMEOUT, both
\* after having registered a waiter, and the table is empty.
C12_Witness ==
    \E c, d \in Calls :
        /\ Returned(c) /\ result[c].err = "nil" /\ result[c].response.id = msgId[c]
        /\ Returned(d) /\ result[d].err = "TIMEOUT"
        /\ DOMAIN pendingRequests = {}


\* C13: when the reply handler takes a reply that decodes and whose
\* identifier is not a key of the pending table, it returns without holding
\* the lock, the table is unchanged and no waiter's channel receives anything.
C13_UnknownReplyDiscarded ==
    [][\A body \in Bodies :
          (HandlerReceive(body) /\ Unmarshal(body) /\ ~exists(body))
              => /\ pendingRequests' = pendingRequests
                 /\ responseChan' = responseChan
                 /\ result' = result
                 /\ handlerPc' = "idle"
                 /\ mu' = "free"]_vars

\* C13: the handler has dropped a late reply, bearing the identifier of a
\* call that had already returned TIMEOUT, while another call was waiting
\* and its channel stayed empty.
C13_Witness ==
    /\ discarded.valid
    /\ \E c, d \in Calls :
          /\ msgId[c] = discarded.id
          /\ Returned(c) /\ result[c].err = "TIMEOUT"
          /\ rpc[d] = "waiting" /\ responseChan[d] = <<>>


\* C18: the lock of the pending table is held only across an insert, a
\* lookup or a delete: no Route call that is about to lock sr.mu, to
\* register or to delete its waiter, finds the lock held by a reply handler
\* that is blocked in a channel send.
C18_NoBlockingUnderLock ==
    \A c \in Calls :
        rpc[c] \in {"register", "delete"}
            => ~(mu = "handler" /\ handlerPc = "blocked")

\* C18 witness of the failing case: the handler holds the lock, blocked in
\* its send into the full channel of a call that is still waiting in its
\* select, and another call cannot register its waiter.
C18_RegisterWaitsOnBlockedHandler ==
    \E c, d \in Calls :
        /\ c # d
        /\ rpc[c] = "register"
        /\ rpc[d] = "waiting"
        /\ mu = "handler" /\ handlerPc = "blocked"
        /\ handlerMsg.id = msgId[d]
        /\ Len(responseChan[d]) = ResponseChanCap


\* ------------------------------------------------------ courier: properties
\* C14: a reply with an empty destination stack raises no fault, neither in
\* Courier.Send nor in the publishing goroutine: the courier keeps running.
C14_EmptyStackOnlyLogged == sendPanics = 0 /\ ~courierCrashed

\* C14: Courier.Send was called with an empty destination stack and
\* panicked in its log line; the panic was not recovered, and a reply that
\* was sent before it stays unpublished in the channel.
C14_SendPanicked ==
    /\ sendPanics = 1
    /\ courierCrashed
    /\ responses # <<>>

\* C21: every reply the courier publishes goes to the URI of the last entry
\* of the RouteTo it had when it was passed to Courier.Send, and carries that
\* RouteTo without its last entry, the other entries unchanged and in order;
\* replies are published in the order in which Courier.Send was called.
C21_StackDiscipline ==
    /\ \A k \in DOMAIN published :
          LET sent == sentRouteTo[published[k].n]
          IN /\ sent # <<>>
             /\ published[k].topic = sent[Len(sent)]
             /\ published[k].routeTo = SubSeq(sent, 1, Len(sent) - 1)
    /\ \A j, k \in DOMAIN published :
          j < k => published[j].n < published[k].n

\* C21 witness: a reply sent with the stack <<"a", "b">> was published to "b"
\* with <<"a">> left on its stack, and a reply sent after it with the stack
\* <<"b", "a">> was published after it, to "a" with <<"b">> left.
C21_Witness ==
    /\ Len(published) >= 2
    /\ sentRouteTo[published[1].n] = <<"a", "b">>
    /\ published[1].topic = "b" /\ published[1].routeTo = <<"a">>
    /\ sentRouteTo[published[2].n] = <<"b", "a">>
    /\ published[2].topic = "a" /\ published[2].routeTo = <<"b">>
    /\ published[1].n < published[2].n

\* ----------------------------------------------------- envelope: properties
\* The bytes that do not decode, as they arrive on the router's reply topic.
Malformed == [valid |-> FALSE, id |-> 0]

\* C22: a malformed envelope is dropped without side effects. In the wrapper
\* of AddHandler the step that drops a request starts no heartbeat emitter,
\* does not invoke the handler, sends and publishes nothing and returns: it
\* changes nothing but the wrapper's position, nothing has ever been sent
\* for a dropped request, and the wrapper takes the next request. In the
\* reply handler of the router the step that drops a malformed body leaves
\* the pending table, every waiter's channel and every Route call as they
\* were and returns with the lock free, and the handler takes the next body.
C22_MalformedDropped ==
    /\ [][\A i \in Invs : (wpc[i] # "dropped" /\ wpc'[i] = "dropped") =>
            /\ wpc[i] = "idle"
            /\ \A j \in Invs \ {i} : wpc'[j] = wpc[j]
            /\ UNCHANGED <<preventPanics, running, stillConsuming,
                           consumedWorkCount, sigPc, inFlightAtSignal, crashed,
                           cur, sends, quitCh, hpc, beats, forwarded,
                           errorReplies, diag, panicked>>]_vars
    /\ [](\A i \in Invs : wpc[i] = "dropped" =>
            /\ hpc[i] = "off" /\ quitCh[i] = 0
            /\ sends[i] = 0 /\ beats[i] = 0 /\ forwarded[i] = 0
            /\ errorReplies[i] = 0 /\ diag[i] = 0
            /\ ~panicked[i]
            /\ ((Alive /\ running) => ENABLED Receive(i, TRUE)))
    /\ [][replies'[Malformed] < replies[Malformed] =>
            /\ discarded' = Malformed
            /\ handlerPc = "idle" /\ handlerPc' = "idle"
            /\ mu = "free" /\ mu' = "free"
            /\ UNCHANGED <<pendingRequests, responseChan, rpc, result, timer,
                           msgId, requests, handlerMsg, arrival>>
            /\ \A body \in Bodies :
                  replies'[body] > 0 => (ENABLED HandlerReceive(body))']_vars

\* C22 witness: the wrapper has dropped a request that did not decode and is
\* ready for the next one; after that the reply handler has dropped a
\* malformed body while a Route call waits, with its waiter in the table and
\* its channel empty, for the reply that is next in the subscription.
C22_Witness ==
    /\ running /\ Alive
    /\ \E i \in Invs : wpc[i] = "dropped" /\ hpc[i] = "off"
    /\ discarded = Malformed
    /\ handlerPc = "idle" /\ mu = "free"
    /\ \E c \in Calls :
          /\ rpc[c] = "waiting"
          /\ msgId[c] \in DOMAIN pendingRequests
          /\ responseChan[c] = <<>>
          /\ replies[[valid |-> TRUE, id |-> msgId[c]]] > 0

\* ------------------------------------------- router: register before publish
\* The reply a responder sends to the request of call c.
replyTo(c) == [valid |-> TRUE, id |-> msgId[c]]

\* C23: Route inserts its waiter in the pending table before it publishes
\* the request: a reply bearing the identifier of a call exists only after
\* the request was published, a call whose request was published and that
\* has not returned has its waiter in the table, and the reply handler drops
\* a reply to a call as unknown only after that call has returned.
C23_RegisteredBeforePublished ==
    /\ [](\A c \in Calls :
            /\ (msgId[c] # 0 /\ replies[replyTo(c)] > 0) => c \in requests
            /\ (c \in requests /\ rpc[c] # "done") =>
                   /\ msgId[c] \in DOMAIN pendingRequests
                   /\ pendingRequests[msgId[c]] = c)
    /\ [][\A c \in Calls :
            (/\ msgId[c] # 0
             /\ replies'[replyTo(c)] < replies[replyTo(c)]
             /\ responseChan' = responseChan
             /\ handlerPc' = "idle")
            => (rpc[c] = "done" /\ discarded' = replyTo(c))]_vars

\* C23 witness: the responder answered so fast that the reply is in the
\* channel of the call before the call has entered its select, and no reply
\* has been dropped.
C23_Witness ==
    \E c \in Calls :
        /\ rpc[c] = "select"
        /\ responseChan[c] = <<replyTo(c)>>
        /\ discarded = Nil

====
